---- MODULE Spec2Model ----
(***************************************************************************)
(* SecureVault: the expiry-tracking and reminder-generation pipeline.      *)
(*                                                                         *)
(* The model follows server/routes.ts (the upload, delete and reminder     *)
(* handlers, categorizeDocument, createExpiryReminders, PostgresStorage),  *)
(* server/document-scanner.ts (scanDocumentForExpiry, shouldScanDocument), *)
(* server/storage.ts (MemStorage), server/index.ts (startup) and the       *)
(* client's upload page (Upload.handleUploadSuccess, UploadZone).          *)
(*                                                                         *)
(* Time is counted in whole days; "now" starts at day 0.  Strings whose    *)
(* contents the code inspects (file names, MIME types) are sequences of    *)
(* one-character strings.  A nullable date is <<>> (null) or <<d>>.        *)
(* Every action is one run of a handler from where it resumes to the next  *)
(* call it awaits (a persistence call, executed atomically, or the call of *)
(* the external inference service).                                        *)
(***************************************************************************)
EXTENDS Integers, Sequences, FiniteSets, TLC

VARIABLES
    phase,       \* "starting" until index.ts has called server.listen
    env,         \* process.env.ENABLE_REMOTE_OCR: "unset", "true", "false"
    backend,     \* the IStorage implementation in use: "mem" or "pg"
    now,         \* the clock read by new Date(), in days
    documents,   \* the document store: id -> Document
    reminders,   \* the reminder store: id -> Reminder
    uploads,     \* one record of locals per POST /api/documents/upload
    posts,       \* one record per POST /api/reminders request handled
    ticks,       \* number of days elapsed
    faults,      \* number of persistence calls that have thrown
    probe        \* the caller's side: the last direct call of a function or storage
                 \* method with its result, or the state of the upload page

vars == <<phase, env, backend, now, documents, reminders,
          uploads, posts, ticks, faults, probe>>

----------------------------------------------------------------------------
(* Bounds of the model. *)

MaxUploads == 2
MaxPosts == 1
MaxTicks == 1
MaxFaults == 1

----------------------------------------------------------------------------
(* Strings as sequences of characters. *)

UpperToLower ==
    [c \in {"A","B","C","D","E","F","G","H","I","J","K","L","M","N","O","P",
            "Q","R","S","T","U","V","W","X","Y","Z"} |->
        CASE c = "A" -> "a" [] c = "B" -> "b" [] c = "C" -> "c" [] c = "D" -> "d"
          [] c = "E" -> "e" [] c = "F" -> "f" [] c = "G" -> "g" [] c = "H" -> "h"
          [] c = "I" -> "i" [] c = "J" -> "j" [] c = "K" -> "k" [] c = "L" -> "l"
          [] c = "M" -> "m" [] c = "N" -> "n" [] c = "O" -> "o" [] c = "P" -> "p"
          [] c = "Q" -> "q" [] c = "R" -> "r" [] c = "S" -> "s" [] c = "T" -> "t"
          [] c = "U" -> "u" [] c = "V" -> "v" [] c = "W" -> "w" [] c = "X" -> "x"
          [] c = "Y" -> "y" [] c = "Z" -> "z"]

\* String.prototype.toLowerCase
toLowerCase(s) ==
    [i \in DOMAIN s |-> IF s[i] \in DOMAIN UpperToLower THEN UpperToLower[s[i]] ELSE s[i]]

\* String.prototype.includes
includes(s, kw) ==
    \E i \in 0..(Len(s) - Len(kw)) : SubSeq(s, i + 1, i + Len(kw)) = kw

kw_passport == <<"p","a","s","s","p","o","r","t">>
kw_license == <<"l","i","c","e","n","s","e">>
kw_licence == <<"l","i","c","e","n","c","e">>
kw_id == <<"i","d">>
kw_brp == <<"b","r","p">>
kw_biometric == <<"b","i","o","m","e","t","r","i","c">>
kw_residence_permit == <<"r","e","s","i","d","e","n","c","e"," ","p","e","r","m","i","t">>
kw_bill == <<"b","i","l","l">>
kw_utility == <<"u","t","i","l","i","t","y">>
kw_invoice == <<"i","n","v","o","i","c","e">>
kw_medical == <<"m","e","d","i","c","a","l">>
kw_health == <<"h","e","a","l","t","h">>
kw_doctor == <<"d","o","c","t","o","r">>
kw_receipt == <<"r","e","c","e","i","p","t">>
kw_purchase == <<"p","u","r","c","h","a","s","e">>
kw_ticket == <<"t","i","c","k","e","t">>
kw_visa == <<"v","i","s","a">>
kw_travel == <<"t","r","a","v","e","l">>
kw_insurance == <<"i","n","s","u","r","a","n","c","e">>
kw_policy == <<"p","o","l","i","c","y">>
kw_residence == <<"r","e","s","i","d","e","n","c","e">>
kw_permit == <<"p","e","r","m","i","t">>
kw_driving == <<"d","r","i","v","i","n","g">>
kw_identity == <<"i","d","e","n","t","i","t","y">>
kw_work == <<"w","o","r","k">>
kw_student == <<"s","t","u","d","e","n","t">>
kw_tier == <<"t","i","e","r">>
kw_image == <<"i","m","a","g","e">>
kw_pdf == <<"p","d","f">>

image_jpeg == <<"i","m","a","g","e","/","j","p","e","g">>
image_png == <<"i","m","a","g","e","/","p","n","g">>
image_jpg == <<"i","m","a","g","e","/","j","p","g">>
application_pdf == <<"a","p","p","l","i","c","a","t","i","o","n","/","p","d","f">>
application_msword == <<"a","p","p","l","i","c","a","t","i","o","n","/","m","s","w","o","r","d">>
text_plain == <<"t","e","x","t","/","p","l","a","i","n">>

\* multer's fileFilter (the wordprocessingml type is left out of the inputs)
allowedTypes == {application_pdf, image_jpeg, image_png, image_jpg, application_msword}

----------------------------------------------------------------------------
(* JavaScript values as they come out of JSON.parse: a tag and a number.   *)
(* Numbers that stand for a confidence are in hundredths (0.7 is 70).      *)

JSV(t, n) == [t |-> t, n |-> n]
JSUndefined == JSV("undefined", 0)
JSNull == JSV("null", 0)
JSNaN == JSV("nan", 0)
JSNum(n) == JSV("num", n)
JSGarbage == JSV("str", 0)        \* a non-empty string that is no number and no date
JSObject == JSV("obj", 0)         \* {}
JSIsoDate(d) == JSV("isodate", d) \* the string "YYYY-MM-DD" of day d

\* ToBoolean
Truthy(v) ==
    CASE v.t \in {"undefined", "null", "nan"} -> FALSE
      [] v.t = "num" -> v.n # 0
      [] OTHER -> TRUE

\* ToNumber, as Math.min applies it to its arguments
ToNumber(v) ==
    CASE v.t = "num" -> v
      [] v.t = "null" -> JSNum(0)
      [] OTHER -> JSNaN

\* Math.min(1, x) and Math.max(0, x): NaN if an argument is NaN
MathMin1(v) ==
    LET x == ToNumber(v) IN
    IF x.t = "nan" THEN JSNaN ELSE IF x.n < 100 THEN x ELSE JSNum(100)

MathMax0(v) ==
    LET x == ToNumber(v) IN
    IF x.t = "nan" THEN JSNaN ELSE IF x.n > 0 THEN x ELSE JSNum(0)

\* new Date(v) followed by getTime(): <<d>> for a valid date, <<>> for Invalid Date.
\* A number is a count of milliseconds since the epoch.
NewDate(v) ==
    CASE v.t = "isodate" -> <<v.n>>
      [] v.t = "num" -> <<v.n \div 86400000>>
      [] OTHER -> <<>>

\* parsedDate.toISOString().split('T')[0]
ToISODateString(d) == JSIsoDate(d)

----------------------------------------------------------------------------
(* routes.ts: categorizeDocument *)

categorizeDocument(filename, mimeType) ==
    LET name == toLowerCase(filename) IN
    IF \/ includes(name, kw_passport) \/ includes(name, kw_license)
       \/ includes(name, kw_id) \/ includes(name, kw_brp)
       \/ includes(name, kw_biometric) \/ includes(name, kw_residence_permit)
    THEN "Identity Documents"
    ELSE IF includes(name, kw_bill) \/ includes(name, kw_utility) \/ includes(name, kw_invoice)
    THEN "Bills & Utilities"
    ELSE IF includes(name, kw_medical) \/ includes(name, kw_health) \/ includes(name, kw_doctor)
    THEN "Medical Records"
    ELSE IF includes(name, kw_receipt) \/ includes(name, kw_purchase)
    THEN "Receipts"
    ELSE IF includes(name, kw_ticket) \/ includes(name, kw_visa) \/ includes(name, kw_travel)
    THEN "Travel Documents"
    ELSE IF includes(name, kw_insurance) \/ includes(name, kw_policy)
    THEN "Insurance"
    ELSE "Receipts"

(* document-scanner.ts: shouldScanDocument *)

priorityKeywords ==
    {kw_passport, kw_brp, kw_biometric, kw_residence, kw_permit,
     kw_license, kw_licence, kw_driving, kw_id, kw_identity,
     kw_visa, kw_work, kw_student, kw_tier}

\* An eligibility test that asks for a keyword in every category it admits
shouldScanDocumentByKeyword(filename, category) ==
    /\ category \in {"Identity Documents", "Legal Documents"}
    /\ \E keyword \in priorityKeywords : includes(toLowerCase(filename), keyword)

shouldScanDocument(filename, category) ==
    LET name == toLowerCase(filename)
        shouldScan == \E keyword \in priorityKeywords : includes(name, keyword)
    IN  IF category # "Identity Documents" /\ category # "Legal Documents"
        THEN FALSE
        ELSE IF category = "Identity Documents" /\ ~shouldScan
        THEN TRUE
        ELSE shouldScan

----------------------------------------------------------------------------
(* document-scanner.ts: scanDocumentForExpiry.  The function runs up to the *)
(* call of the inference service (scanBeforeCall) and, when the service has *)
(* answered or failed, from there to its return (scanAfterCall).            *)

ScanResult(expiryDate, documentType, confidence) ==
    [expiryDate |-> expiryDate, documentType |-> documentType, confidence |-> confidence]

EmptyResult == ScanResult(JSNull, JSNull, JSNum(0))

\* A scanner without the privacy gate: it looks at the MIME type only
scanBeforeCallUngated(mimeType, enableRemoteScanning, readable) ==
    IF includes(mimeType, kw_image) /\ readable THEN "call" ELSE "empty"

\* What the function does before any await: "call" when it goes on to call
\* openai.chat.completions.create, "empty" when it returns the empty result.
scanBeforeCall(mimeType, enableRemoteScanning, readable) ==
    IF ~enableRemoteScanning THEN "empty"
    ELSE IF ~includes(mimeType, kw_image) /\ ~includes(mimeType, kw_pdf) THEN "empty"
    ELSE IF includes(mimeType, kw_image)
         THEN IF readable THEN "call" ELSE "empty"   \* fs.readFileSync throws: caught
    ELSE "empty"                                     \* a PDF

\* A response of the service: it throws, or its content is not JSON, or the
\* content parses to null, to a scalar, or to an object with these fields.
Response(kind, expiryDate, documentType, confidence) ==
    [kind |-> kind, expiryDate |-> expiryDate, documentType |-> documentType,
     confidence |-> confidence]

\* Math.max(0, Math.min(1, result.confidence || 0))
clampConfidence(confidence) ==
    MathMax0(MathMin1(IF Truthy(confidence) THEN confidence ELSE JSNum(0)))

\* A scanner that hands the service's expiryDate on as it came
formatExpiryDateUnchecked(expiryDate) == expiryDate

\* "Validate and format the expiry date"
formatExpiryDate(expiryDate) ==
    IF Truthy(expiryDate)
    THEN IF NewDate(expiryDate) # <<>>
         THEN ToISODateString(NewDate(expiryDate)[1])
         ELSE JSNull
    ELSE expiryDate

scanAfterCall(response) ==
    CASE response.kind \in {"throws", "notjson", "null"} -> EmptyResult
      [] response.kind = "scalar" ->
            ScanResult(JSUndefined, JSUndefined, clampConfidence(JSUndefined))
      [] OTHER ->
            ScanResult(formatExpiryDate(response.expiryDate), response.documentType,
                       clampConfidence(response.confidence))

----------------------------------------------------------------------------
(* The persistence interface: storage.ts (MemStorage) and routes.ts         *)
(* (PostgresStorage over the tables of the schema).                         *)

Put(store, id, row) == [k \in DOMAIN store \cup {id} |-> IF k = id THEN row ELSE store[k]]
Drop(store, ids) == [k \in DOMAIN store \ ids |-> store[k]]

\* createDocument: the row stored for an InsertDocument
createDocument(insertDocument, id, uploadedAt) ==
    [id |-> id,
     userId |-> insertDocument.userId,
     originalName |-> insertDocument.originalName,
     mimeType |-> insertDocument.mimeType,
     category |-> insertDocument.category,
     expiryDate |-> insertDocument.expiryDate,
     uploadedAt |-> uploadedAt]

\* A lookup that does not compare the owner
existsDocument(docs, id, userId) == id \in DOMAIN docs

\* updateDocument finds a row: the id exists and belongs to userId
ownsDocument(docs, id, userId) == id \in DOMAIN docs /\ docs[id].userId = userId

\* An update that stores the row anew, stamped with the time of the update
restampDocument(docs, id, expiryDate) ==
    [docs[id] EXCEPT !.expiryDate = expiryDate, !.uploadedAt = now]

\* updateDocument(id, userId, {expiryDate}): the row after the update
updateDocument(docs, id, expiryDate) == [docs[id] EXCEPT !.expiryDate = expiryDate]

\* deleteDocument: the reminders left after the document row is removed.
\* MemStorage also deletes the reminders whose documentId is id; the reminders
\* table of the schema declares no reference to documents, so PostgresStorage's
\* DELETE FROM documents leaves them.
MemDeleteReminders(rems, id) == Drop(rems, {r \in DOMAIN rems : rems[r].documentId = id})
PgDeleteReminders(rems, id) == rems

deleteDocumentReminders(impl, rems, id) ==
    IF impl = "mem" THEN MemDeleteReminders(rems, id) ELSE PgDeleteReminders(rems, id)

\* createReminder: the row stored for an InsertReminder (isActive ?? true).
\* The row's createdAt, which nothing reads, is left out.
createReminder(insertReminder, id) ==
    [id |-> id,
     userId |-> insertReminder.userId,
     documentId |-> insertReminder.documentId,
     reminderDate |-> insertReminder.reminderDate,
     message |-> insertReminder.message,
     isActive |-> IF insertReminder.isActive = "absent" THEN TRUE
                  ELSE insertReminder.isActive = "true"]

\* getDocument: <<row>>, or <<>> for undefined
getDocument(docs, id, userId) ==
    IF ownsDocument(docs, id, userId) THEN <<docs[id]>> ELSE <<>>

\* updateReminder finds a row: the id exists and belongs to userId
ownsReminder(rems, id, userId) == id \in DOMAIN rems /\ rems[id].userId = userId

\* updateReminder(id, userId, {isActive}): the row after the update
updateReminder(rems, id, isActive) == [rems[id] EXCEPT !.isActive = isActive]

\* Every reminder of the user, dismissed or not
allReminders(rems, userId) == {rems[r] : r \in {k \in DOMAIN rems : rems[k].userId = userId}}

\* getReminders, getActiveReminders, getUpcomingReminders: the rows returned,
\* as a set (the order of the array is the map's insertion order)
getReminders(rems, userId) ==
    {rems[r] : r \in {k \in DOMAIN rems : rems[k].userId = userId}}

getActiveReminders(rems, userId) ==
    {rems[r] : r \in {k \in DOMAIN rems : rems[k].userId = userId /\ rems[k].isActive}}

\* futureDate is the call's time plus days
getUpcomingReminders(rems, userId, days, t) ==
    {rems[r] : r \in {k \in DOMAIN rems :
                        /\ rems[k].userId = userId
                        /\ rems[k].isActive
                        /\ rems[k].reminderDate <= t + days
                        /\ rems[k].reminderDate >= t}}

\* An id computed from what was uploaded
contentId(n) == 1

\* The ids randomUUID and gen_random_uuid() hand out are unique; the model
\* takes the n-th upload's document id, the id of the reminder made for entry
\* j of a document's schedule, and the id of the n-th posted reminder from
\* three ranges that do not meet.
uploadedDocumentId(n) == n
scheduledReminderId(docId, j) == 10 * docId + j
postedReminderId(n) == 100 + n

\* Whether a persistence call returns (TRUE) or throws (FALSE)
Outcomes == IF faults < MaxFaults THEN {TRUE, FALSE} ELSE {TRUE}

----------------------------------------------------------------------------
(* Inputs. *)

Users == {"u1", "u2"}
EnvValues == {"unset", "true", "false"}

passport_john_jpg == <<"p","a","s","s","p","o","r","t","_","j","o","h","n",".","j","p","g">>
Scan001_pdf == <<"S","c","a","n","0","0","1",".","p","d","f">>
cv_doc == <<"c","v",".","d","o","c">>
bill_doc == <<"b","i","l","l",".","d","o","c">>

\* A multipart upload request: the file multer saw (hasFile is FALSE when no
\* file part was sent), whether the saved file can be read back, and the body
\* fields category ("" when absent), expiryDate and tags.
Request(userId, hasFile, originalname, mimetype, readable, category, expiryDate, tags) ==
    [userId |-> userId, hasFile |-> hasFile, originalname |-> originalname,
     mimetype |-> mimetype, readable |-> readable, category |-> category,
     expiryDate |-> expiryDate, tags |-> tags]

NoExpiry == JSUndefined

UploadRequests ==
    {   \* the end-to-end scenario: scanned through the inference service
        Request("u1", TRUE, passport_john_jpg, image_jpeg, TRUE, "", NoExpiry, "absent"),
        \* the saved image cannot be read back
        Request("u1", TRUE, passport_john_jpg, image_jpeg, FALSE, "", NoExpiry, "absent"),
        \* declared expiry dates: 100 and 8 days ahead, and 5 days ago
        Request("u1", TRUE, passport_john_jpg, image_jpeg, TRUE, "", JSIsoDate(100), "json"),
        Request("u2", TRUE, bill_doc, application_msword, TRUE, "", JSIsoDate(8), "absent"),
        Request("u2", TRUE, bill_doc, application_msword, TRUE, "", JSIsoDate(0 - 5), "absent"),
        \* eligible by declared category, but a PDF and a Word file
        Request("u2", TRUE, Scan001_pdf, application_pdf, TRUE, "Identity Documents", NoExpiry, "absent"),
        Request("u2", TRUE, cv_doc, application_msword, TRUE, "Legal Documents", NoExpiry, "absent"),
        \* not eligible
        Request("u1", TRUE, Scan001_pdf, application_pdf, TRUE, "", NoExpiry, "absent"),
        \* rejected: no file, a type multer filters out, bad expiry date, bad tags
        Request("u1", FALSE, <<>>, <<>>, TRUE, "", NoExpiry, "absent"),
        Request("u1", TRUE, passport_john_jpg, text_plain, TRUE, "", NoExpiry, "absent"),
        Request("u2", TRUE, bill_doc, application_msword, TRUE, "", JSGarbage, "absent"),
        Request("u2", TRUE, bill_doc, application_msword, TRUE, "", NoExpiry, "bad")
    }

JSPassport == JSV("str", 1)       \* the string "passport"

ServiceResponses ==
    {   Response("throws", JSUndefined, JSUndefined, JSUndefined),
        Response("notjson", JSUndefined, JSUndefined, JSUndefined),
        Response("null", JSUndefined, JSUndefined, JSUndefined),
        Response("scalar", JSUndefined, JSUndefined, JSUndefined),
        \* {expiryDate: "<day 100>", documentType: "passport", confidence: 0.92}
        Response("object", JSIsoDate(100), JSPassport, JSNum(92)),
        \* the same with confidence 0.7
        Response("object", JSIsoDate(100), JSPassport, JSNum(70)),
        \* {expiryDate: "<day 100>", confidence: "high"}
        Response("object", JSIsoDate(100), JSUndefined, JSGarbage),
        \* {expiryDate: "N/A", documentType: "passport", confidence: 1.5}
        Response("object", JSGarbage, JSPassport, JSNum(150)),
        \* {expiryDate: 2026, documentType: null, confidence: -0.5}
        Response("object", JSNum(2026), JSNull, JSNum(0 - 50))
    }

\* A POST /api/reminders body
ReminderBody(documentId, reminderDate, hasMessage, isActive) ==
    [documentId |-> documentId, reminderDate |-> reminderDate,
     hasMessage |-> hasMessage, isActive |-> isActive]

ReminderBodies ==
    {ReminderBody(d, JSIsoDate(3), TRUE, "absent") : d \in DOMAIN documents \cup {0}}
    \cup {ReminderBody(0, JSIsoDate(3), TRUE, "false"),
          ReminderBody(0, JSGarbage, TRUE, "absent"),
          ReminderBody(0, JSIsoDate(3), FALSE, "absent")}

----------------------------------------------------------------------------
(* The locals of one upload handler. *)

NoDocument ==
    [id |-> 0, userId |-> "", originalName |-> <<>>, mimeType |-> <<>>,
     category |-> "", expiryDate |-> <<>>, uploadedAt |-> 0]

\* What the handler's checks will find in a request: a file that multer's
\* filter accepted, tags that JSON.parse accepts, an expiryDate that is absent
\* or a date
uploadFacts(req) ==
    [file |-> req.hasFile /\ req.mimetype \in allowedTypes,
     tags |-> req.tags # "bad",
     expiryDate |-> ~Truthy(req.expiryDate) \/ NewDate(req.expiryDate) # <<>>]

Handler(req, userId, pc, status, document, readable) ==
    [input |-> uploadFacts(req),  \* the request, as far as validation goes
     userId |-> userId,         \* getUserId(req)
     faulted |-> "",            \* the persistence call that threw, "" when none did
     declared |-> document.expiryDate,  \* the expiry date createDocument stored
     pc |-> pc,                 \* "created", "awaitScan", "schedule", "done"
     status |-> status,         \* the response sent: 0 while none, else 200, 400, 500
     document |-> document,     \* the local variable document
     readable |-> readable,     \* whether the file saved by multer can be read
     scannerCalls |-> 0,        \* calls of scanDocumentForExpiry
     scanReturns |-> 0,         \* returns of scanDocumentForExpiry to the handler
     enabledArg |-> FALSE,      \* its argument enableRemoteScanning
     serviceCalls |-> 0,        \* calls of the external inference service
     scanResult |-> EmptyResult,
     updateCalls |-> 0,         \* calls of storage.updateDocument
     updated |-> FALSE,         \* updateDocument returned a document
     schedCalls |-> 0,          \* calls of createExpiryReminders
     schedNow |-> 0,            \* the clock when createExpiryReminders was called
     schedExpiry |-> <<>>,      \* document.expiryDate as passed to it
     idx |-> 1,                 \* the next entry of its reminders array
     made |-> {}]               \* the reminders it has created

\* No function or storage method has been called directly
NoProbe == [op |-> "none"]

----------------------------------------------------------------------------
(* index.ts: startup *)

\* A startup that leaves the variable as it found it
startupEnvKept(value) == value

\* process.env.ENABLE_REMOTE_OCR = 'true'
startupEnv(value) == "true"

Init ==
    /\ phase = "starting"
    /\ env \in EnvValues
    /\ backend = "mem"           \* export const storage = new MemStorage()
    /\ now = 0
    /\ documents = <<>>
    /\ reminders = <<>>
    /\ uploads = <<>>
    /\ posts = <<>>
    /\ probe = NoProbe
    /\ ticks = 0
    /\ faults = 0

\* registerRoutes, the environment forced, server.listen
Startup ==
    /\ phase = "starting"
    /\ env' = startupEnv(env)
    /\ phase' = "listening"
    /\ UNCHANGED <<probe, backend, now, documents, reminders, uploads,
                   posts, ticks, faults>>

\* A day passes
Tick ==
    /\ phase = "listening"
    /\ ticks < MaxTicks
    /\ now' = now + 1
    /\ ticks' = ticks + 1
    /\ UNCHANGED <<probe, phase, env, backend, documents, reminders,
                   uploads, posts, faults>>

----------------------------------------------------------------------------
(* routes.ts: POST /api/documents/upload *)

\* category || categorizeDocument(req.file.originalname, req.file.mimetype)
detectedCategory(req) ==
    IF req.category # "" THEN req.category
    ELSE categorizeDocument(req.originalname, req.mimetype)

\* A validation that stops at the file
validateFileOnly(req) ==
    IF ~(req.hasFile /\ req.mimetype \in allowedTypes) THEN 400 ELSE 0

\* The status the handler answers before it stores anything, 0 when it goes on:
\* no file (none sent, or multer's filter dropped it), JSON.parse(tags) throws,
\* insertDocumentSchema rejects an Invalid Date.
validateUpload(req) ==
    IF ~(req.hasFile /\ req.mimetype \in allowedTypes) THEN 400
    ELSE IF req.tags = "bad" THEN 500
    ELSE IF Truthy(req.expiryDate) /\ NewDate(req.expiryDate) = <<>> THEN 400
    ELSE 0

documentData(req) ==
    [userId |-> req.userId,
     originalName |-> req.originalname,
     mimeType |-> req.mimetype,
     category |-> detectedCategory(req),
     expiryDate |-> IF Truthy(req.expiryDate) THEN NewDate(req.expiryDate) ELSE <<>>]

ConfidenceThreshold == 70     \* 0.7

\* A flag that is on unless the variable says 'false'
enableRemoteScanningByDefault(value) == value # "false"

\* const enableRemoteScanning = process.env.ENABLE_REMOTE_OCR === 'true'
enableRemoteScanning(value) == value = "true"


\* A gate that takes any date, whatever the confidence
gateAcceptsAnyDate(scanResult) == Truthy(scanResult.expiryDate)

\* A gate that lets the threshold itself through (>= 0.7)
gateAcceptsInclusive(scanResult) ==
    /\ Truthy(scanResult.expiryDate)
    /\ scanResult.confidence.t = "num"
    /\ scanResult.confidence.n >= ConfidenceThreshold

\* scanResult.expiryDate && scanResult.confidence > 0.7 (NaN > 0.7 is false)
gateAccepts(scanResult) ==
    /\ Truthy(scanResult.expiryDate)
    /\ scanResult.confidence.t = "num"
    /\ scanResult.confidence.n > ConfidenceThreshold

\* A handler that keeps the document createDocument returned
keepCreated(document, updatedDocument) == document

\* if (updatedDocument) { document = updatedDocument; }
adoptUpdated(document, updatedDocument) == updatedDocument

\* A handler that goes on after a persistence call has thrown
catchAndGoOn(h, call) == [h EXCEPT !.faulted = call]

\* The outer catch block: the handler answers 500 and ends
catchUploadError(h, call) ==
    [h EXCEPT !.pc = "done", !.status = 500, !.faulted = call]

\* A catch block that takes the document back out of the store
rollBackDocument(docs, document) == Drop(docs, {document.id})

\* The document store after the outer catch block, which does not touch it
documentsAfterError(docs, document) == docs

UploadCreate(req) ==
    /\ phase = "listening"
    /\ Len(uploads) < MaxUploads
    /\ IF validateUpload(req) # 0
       THEN /\ uploads' = Append(uploads, Handler(req, req.userId, "done", validateUpload(req),
                                                  NoDocument, req.readable))
            /\ UNCHANGED <<documents, faults>>
       ELSE \E ok \in Outcomes :
              IF ok
              THEN LET id == uploadedDocumentId(Len(uploads) + 1)
                       doc == createDocument(documentData(req), id, now)
                   IN  /\ documents' = Put(documents, id, doc)
                       /\ uploads' = Append(uploads, Handler(req, req.userId, "created", 0,
                                                             doc, req.readable))
                       /\ UNCHANGED faults
              ELSE /\ faults' = faults + 1
                   /\ uploads' = Append(uploads,
                                     catchUploadError(
                                        Handler(req, req.userId, "created", 0,
                                                NoDocument, req.readable),
                                        "createDocument"))
                   /\ UNCHANGED documents
    /\ UNCHANGED <<probe, phase, env, backend, now, reminders, posts, ticks>>

\* From the return of scanDocumentForExpiry to the return of updateDocument,
\* or to the end of the try block when the gate rejects the result.  h holds
\* the locals of upload i at the scanner's return.
AfterScan(i, h, scanResult) ==
    LET h1 == [h EXCEPT !.pc = "schedule", !.scanResult = scanResult,
                        !.scanReturns = 1] IN
    IF gateAccepts(scanResult)
    THEN \E ok \in Outcomes :
           IF ~ok
           THEN \* updateDocument throws: the catch block logs and goes on
                /\ faults' = faults + 1
                /\ uploads' = [uploads EXCEPT ![i] =
                                 [h1 EXCEPT !.updateCalls = 1, !.faulted = "updateDocument"]]
                /\ UNCHANGED documents
           ELSE IF ownsDocument(documents, h.document.id, h.userId)
           THEN LET row == updateDocument(documents, h.document.id,
                                          NewDate(scanResult.expiryDate))
                IN  /\ documents' = Put(documents, h.document.id, row)
                    /\ uploads' = [uploads EXCEPT ![i] =
                                     [h1 EXCEPT !.updateCalls = 1, !.updated = TRUE,
                                                !.document = adoptUpdated(h.document, row)]]
                    /\ UNCHANGED faults
           ELSE \* the row is gone: updateDocument returns undefined
                /\ uploads' = [uploads EXCEPT ![i] = [h1 EXCEPT !.updateCalls = 1]]
                /\ UNCHANGED <<documents, faults>>
    ELSE /\ uploads' = [uploads EXCEPT ![i] = h1]
         /\ UNCHANGED <<documents, faults>>

\* A handler that calls the scanner and goes on without its result
callWithoutAwait(h) == [h EXCEPT !.pc = "schedule", !.serviceCalls = 1]

\* await scanDocumentForExpiry(...): the handler is suspended until the
\* scanner, which has called the inference service, returns
awaitScanner(h) == [h EXCEPT !.pc = "awaitScan", !.serviceCalls = 1]

\* A condition that looks at the policy only
scanConditionByPolicy(document) ==
    shouldScanDocument(document.originalName, document.category)

\* !document.expiryDate && shouldScanDocument(document.originalName, document.category)
scanCondition(document) ==
    /\ document.expiryDate = <<>>
    /\ shouldScanDocument(document.originalName, document.category)

\* From the return of createDocument to the call of the inference service, or
\* past the scan when no call is made.
UploadScan(i) ==
    /\ i \in DOMAIN uploads
    /\ uploads[i].pc = "created"
    /\ LET h == uploads[i]
           d == h.document
       IN  IF scanCondition(d)
           THEN LET enable == enableRemoteScanning(env)
                    h1 == [h EXCEPT !.scannerCalls = 1, !.enabledArg = enable]
                IN  IF scanBeforeCall(d.mimeType, enable, h.readable) = "call"
                    THEN /\ uploads' = [uploads EXCEPT ![i] = awaitScanner(h1)]
                         /\ UNCHANGED <<documents, faults>>
                    ELSE AfterScan(i, h1, EmptyResult)
           ELSE /\ uploads' = [uploads EXCEPT ![i] = [h EXCEPT !.pc = "schedule"]]
                /\ UNCHANGED <<documents, faults>>
    /\ UNCHANGED <<probe, phase, env, backend, now, reminders, posts, ticks>>

\* The inference service answers or fails
ScanReturn(i, response) ==
    /\ i \in DOMAIN uploads
    /\ uploads[i].pc = "awaitScan"
    /\ AfterScan(i, uploads[i], scanAfterCall(response))
    /\ UNCHANGED <<probe, phase, env, backend, now, reminders, posts, ticks>>

----------------------------------------------------------------------------
(* routes.ts: createExpiryReminders, as called by the upload handler *)

reminderOffsets == <<90, 30, 7>>
reminderLabels == <<"3 months", "1 month", "1 week">>

\* reminderDate.setDate(reminderDate.getDate() - reminder.days)
reminderDateFor(expiryDate, days) == expiryDate - days

\* A comparison that lets a reminder date equal to the clock through
inFutureOrNow(reminderDate, t) == reminderDate >= t

\* reminderDate > new Date()
inFuture(reminderDate, t) == reminderDate > t

\* The loop runs without awaiting up to the first entry, from idx on, whose
\* reminder date is in the future; Len(reminderOffsets) + 1 when there is none.
RECURSIVE nextDue(_, _, _)
nextDue(expiryDate, idx, t) ==
    IF idx > Len(reminderOffsets) THEN idx
    ELSE IF inFuture(reminderDateFor(expiryDate, reminderOffsets[idx]), t) THEN idx
    ELSE nextDue(expiryDate, idx + 1, t)

\* A handler that ends without sending anything
endWithoutResponse(h, status) == h

\* res.json(document): the response is sent and the handler ends
respond(h, status) == [h EXCEPT !.pc = "done", !.status = status]

\* if (document.expiryDate) { await createExpiryReminders(document, userId) }
shouldSchedule(document) == document.expiryDate # <<>>

\* From the end of the scan block, or from the return of one createReminder,
\* to the next createReminder or to the response.
ScheduleNext(i) ==
    /\ i \in DOMAIN uploads
    /\ uploads[i].pc = "schedule"
    /\ LET h == uploads[i]
           called == h.schedCalls > 0
       IN  IF ~called /\ ~shouldSchedule(h.document)
           THEN /\ uploads' = [uploads EXCEPT ![i] = respond(h, 200)]
                /\ UNCHANGED <<documents, reminders, faults>>
           ELSE LET h1 == IF called THEN h
                          ELSE [h EXCEPT !.schedCalls = 1, !.schedNow = now,
                                         !.schedExpiry = h.document.expiryDate]
                    expiryDate == h.document.expiryDate[1]
                    j == nextDue(expiryDate, h.idx, now)
                IN  IF j > Len(reminderOffsets)
                    THEN /\ uploads' = [uploads EXCEPT ![i] =
                                          respond([h1 EXCEPT !.idx = j], 200)]
                         /\ UNCHANGED <<documents, reminders, faults>>
                    ELSE \E ok \in Outcomes :
                           IF ok
                           THEN LET id == scheduledReminderId(h.document.id, j)
                                    row == createReminder(
                                              [userId |-> h.userId,
                                               documentId |-> h.document.id,
                                               reminderDate |-> reminderDateFor(expiryDate, reminderOffsets[j]),
                                               message |-> <<h.document.originalName, reminderLabels[j]>>,
                                               isActive |-> "true"], id)
                                IN  /\ reminders' = Put(reminders, id, row)
                                    /\ uploads' = [uploads EXCEPT ![i] =
                                          [h1 EXCEPT !.idx = j + 1,
                                                     !.made = @ \cup {[id |-> id,
                                                                      days |-> reminderOffsets[j],
                                                                      reminderDate |-> row.reminderDate,
                                                                      isActive |-> row.isActive]}]]
                                    /\ UNCHANGED <<documents, faults>>
                           ELSE \* createReminder throws: the outer catch answers 500
                                /\ faults' = faults + 1
                                /\ uploads' = [uploads EXCEPT ![i] =
                                          catchUploadError([h1 EXCEPT !.idx = j],
                                                           "createReminder")]
                                /\ documents' = documentsAfterError(documents, h.document)
                                /\ UNCHANGED reminders
    /\ UNCHANGED <<probe, phase, env, backend, now, posts, ticks>>

----------------------------------------------------------------------------
(* routes.ts: DELETE /api/documents/:id and POST /api/reminders *)

DeleteDocument(userId, id) ==
    /\ phase = "listening"
    /\ IF ownsDocument(documents, id, userId)
       THEN /\ documents' = Drop(documents, {id})
            /\ reminders' = deleteDocumentReminders(backend, reminders, id)
       ELSE UNCHANGED <<documents, reminders>>
    /\ UNCHANGED <<probe, phase, env, backend, now, uploads, posts, ticks, faults>>

\* What one request carried, as far as validation goes, and how it was answered
Posted(userId, body, status) ==
    [message |-> body.hasMessage,
     reminderDate |-> NewDate(body.reminderDate) # <<>>,
     status |-> status]

\* insertReminderSchema.safeParse: a message and a valid reminderDate
validReminder(body) == body.hasMessage /\ NewDate(body.reminderDate) # <<>>

\* The handler, whoever sent the request
HandlePostReminder(userId, body) ==
    /\ phase = "listening"
    /\ IF validReminder(body)
       THEN \E ok \in Outcomes :
              IF ok
              THEN LET id == postedReminderId(Len(posts) + 1)
                       row == createReminder(
                                 [userId |-> userId,
                                  documentId |-> body.documentId,
                                  reminderDate |-> NewDate(body.reminderDate)[1],
                                  message |-> IF body.hasMessage THEN << <<>>, "note" >>
                                              ELSE <<>>,
                                  isActive |-> body.isActive], id)
                   IN  /\ reminders' = Put(reminders, id, row)
                       /\ posts' = Append(posts, Posted(userId, body, 200))
                       /\ UNCHANGED faults
              ELSE /\ faults' = faults + 1
                   /\ posts' = Append(posts, Posted(userId, body, 500))
                   /\ UNCHANGED reminders
       ELSE /\ posts' = Append(posts, Posted(userId, body, 400))
            /\ UNCHANGED <<reminders, faults>>
    /\ UNCHANGED <<phase, env, backend, now, documents, uploads, ticks>>

\* A request sent by some client other than the upload page
PostReminder(userId, body) ==
    /\ Len(posts) < MaxPosts
    /\ HandlePostReminder(userId, body)
    /\ UNCHANGED probe

----------------------------------------------------------------------------
(* Specifications. *)

\* The requests a listening server handles, and the passing of time
NextRoutes ==
    \/ Tick
    \/ \E req \in UploadRequests : UploadCreate(req)
    \/ \E i \in 1..MaxUploads : UploadScan(i)
    \/ \E i \in 1..MaxUploads, response \in ServiceResponses : ScanReturn(i, response)
    \/ \E i \in 1..MaxUploads : ScheduleNext(i)
    \/ \E userId \in Users, id \in DOMAIN documents \cup {0} : DeleteDocument(userId, id)
    \/ \E userId \in Users, body \in ReminderBodies : PostReminder(userId, body)

Next == Startup \/ NextRoutes

\* The process as index.ts starts it
Spec == Init /\ [][Next]_vars

\* The routes of routes.ts mounted in a process whose environment is not
\* touched: ENABLE_REMOTE_OCR keeps the value it was given
InitRoutes ==
    /\ phase = "listening"
    /\ env \in EnvValues
    /\ backend = "mem"
    /\ now = 0
    /\ documents = <<>>
    /\ reminders = <<>>
    /\ uploads = <<>>
    /\ posts = <<>>
    /\ probe = NoProbe
    /\ ticks = 0
    /\ faults = 0

SpecRoutes == InitRoutes /\ [][NextRoutes]_vars

\* The event loop resumes every handler whose awaited call has returned, and
\* the inference service answers or fails every call made to it
Fairness ==
    \A i \in 1..MaxUploads :
       /\ WF_vars(UploadScan(i))
       /\ WF_vars(\E response \in ServiceResponses : ScanReturn(i, response))
       /\ WF_vars(ScheduleNext(i))

\* The started process handling uploads and deletions while time passes
NextLive ==
    \/ Startup
    \/ Tick
    \/ \E req \in UploadRequests : UploadCreate(req)
    \/ \E i \in 1..MaxUploads : UploadScan(i)
    \/ \E i \in 1..MaxUploads, response \in ServiceResponses : ScanReturn(i, response)
    \/ \E i \in 1..MaxUploads : ScheduleNext(i)
    \/ \E userId \in Users, id \in DOMAIN documents \cup {0} : DeleteDocument(userId, id)

SpecLive == Init /\ [][NextLive]_vars /\ Fairness

\* The process started over PostgresStorage instead of MemStorage
InitPg ==
    /\ phase = "starting"
    /\ env \in EnvValues
    /\ backend = "pg"
    /\ now = 0
    /\ documents = <<>>
    /\ reminders = <<>>
    /\ uploads = <<>>
    /\ posts = <<>>
    /\ probe = NoProbe
    /\ ticks = 0
    /\ faults = 0

SpecPg == InitPg /\ [][Next]_vars

----------------------------------------------------------------------------
(* client: the upload page (the Upload component with its UploadZone) in   *)
(* front of the started server.  Every upload is sent by the UploadZone     *)
(* with the form's expiryDate; probe holds the page's side: the uploads     *)
(* whose onSuccess has run and the POST /api/reminders requests sent and    *)
(* not yet handled.                                                         *)

\* reminderDate.toISOString()
toISOString(d) == JSIsoDate(d)

\* handleUploadSuccess(document) with the form's expiryDate at time t: the
\* bodies createReminderMutation.mutate is called with
handleUploadSuccess(document, expiryDate, t) ==
    IF expiryDate = <<>> THEN {}
    ELSE {ReminderBody(document.id,
                       toISOString(reminderDateFor(expiryDate[1], reminderOffsets[k])),
                       TRUE, "absent") :
             k \in {j \in DOMAIN reminderOffsets :
                      inFuture(reminderDateFor(expiryDate[1], reminderOffsets[j]), t)}}

InitPage ==
    /\ phase = "listening"
    /\ env = "true"
    /\ backend = "mem"
    /\ now = 0
    /\ documents = <<>>
    /\ reminders = <<>>
    /\ uploads = <<>>
    /\ posts = <<>>
    /\ ticks = 0
    /\ faults = 0
    /\ probe = [op |-> "upload page", handled |-> {}, pending |-> {}]

\* uploadMutation's onSuccess: the upload was answered with 200
PageUploadSuccess(i) ==
    /\ i \in DOMAIN uploads
    /\ i \notin probe.handled
    /\ uploads[i].status = 200
    /\ probe' = [probe EXCEPT
                   !.handled = @ \cup {i},
                   !.pending = @ \cup
                      {[userId |-> uploads[i].userId, body |-> b] :
                          b \in handleUploadSuccess(uploads[i].document,
                                                    uploads[i].declared, now)}]
    /\ UNCHANGED <<phase, env, backend, now, documents, reminders,
                   uploads, posts, ticks, faults>>

\* One of the page's POST /api/reminders requests reaches the server
PagePostReminder(request) ==
    /\ request \in probe.pending
    /\ HandlePostReminder(request.userId, request.body)
    /\ probe' = [probe EXCEPT !.pending = @ \ {request}]

NextPage ==
    \/ Tick
    \/ \E req \in UploadRequests : UploadCreate(req)
    \/ \E i \in 1..MaxUploads : UploadScan(i)
    \/ \E i \in 1..MaxUploads, response \in ServiceResponses : ScanReturn(i, response)
    \/ \E i \in 1..MaxUploads : ScheduleNext(i)
    \/ \E i \in 1..MaxUploads : PageUploadSuccess(i)
    \/ \E request \in probe.pending : PagePostReminder(request)

SpecPage == InitPage /\ [][NextPage]_vars

----------------------------------------------------------------------------
(* The classifier and the eligibility test called directly. *)

PASSPORT_John_PDF == <<"P","A","S","S","P","O","R","T","_","J","o","h","n",".","P","D","F">>
driving_licence_pdf == <<"d","r","i","v","i","n","g","_","l","i","c","e","n","c","e",".","p","d","f">>
Driving_License_png == <<"D","r","i","v","i","n","g","_","L","i","c","e","n","s","e",".","p","n","g">>
brp_card_jpg == <<"b","r","p","_","c","a","r","d",".","j","p","g">>
residence_permit_pdf == <<"r","e","s","i","d","e","n","c","e"," ","p","e","r","m","i","t",".","p","d","f">>
gas_bill_pdf == <<"g","a","s","_","b","i","l","l",".","p","d","f">>
visa_bill_pdf == <<"v","i","s","a","_","b","i","l","l",".","p","d","f">>
health_insurance_pdf == <<"h","e","a","l","t","h","_","i","n","s","u","r","a","n","c","e",".","p","d","f">>
train_ticket_pdf == <<"t","r","a","i","n","_","t","i","c","k","e","t",".","p","d","f">>
paid_invoice_pdf == <<"p","a","i","d","_","i","n","v","o","i","c","e",".","p","d","f">>
policy_pdf == <<"p","o","l","i","c","y",".","p","d","f">>
Receipt_42_png == <<"R","e","c","e","i","p","t","_","4","2",".","p","n","g">>
notes_txt == <<"n","o","t","e","s",".","t","x","t">>
work_contract_pdf == <<"w","o","r","k","_","c","o","n","t","r","a","c","t",".","p","d","f">>
Student_Tier4_PDF == <<"S","t","u","d","e","n","t","_","T","i","e","r","4",".","P","D","F">>
lease_pdf == <<"l","e","a","s","e",".","p","d","f">>

FileNames ==
    {passport_john_jpg, Scan001_pdf, cv_doc, bill_doc,
     PASSPORT_John_PDF, driving_licence_pdf, Driving_License_png, brp_card_jpg,
     residence_permit_pdf, gas_bill_pdf, visa_bill_pdf, health_insurance_pdf,
     train_ticket_pdf, paid_invoice_pdf, policy_pdf, Receipt_42_png,
     notes_txt, work_contract_pdf, Student_Tier4_PDF, lease_pdf}

MimeTypes == allowedTypes \cup {text_plain}

Categories ==
    {"Identity Documents", "Legal Documents", "Bills & Utilities", "Medical Records",
     "Receipts", "Travel Documents", "Insurance", ""}

Categorize(filename, mimeType) ==
    /\ probe' = [op |-> "categorizeDocument", filename |-> filename,
                 mimeType |-> mimeType,
                 result |-> categorizeDocument(filename, mimeType)]
    /\ UNCHANGED <<phase, env, backend, now, documents, reminders,
                   uploads, posts, ticks, faults>>

ShouldScan(filename, category) ==
    /\ probe' = [op |-> "shouldScanDocument", filename |-> filename,
                 category |-> category,
                 result |-> shouldScanDocument(filename, category)]
    /\ UNCHANGED <<phase, env, backend, now, documents, reminders,
                   uploads, posts, ticks, faults>>

NextFunctions ==
    \/ \E filename \in FileNames, mimeType \in MimeTypes : Categorize(filename, mimeType)
    \/ \E filename \in FileNames, category \in Categories : ShouldScan(filename, category)

SpecFunctions == InitRoutes /\ [][NextFunctions]_vars

----------------------------------------------------------------------------
(* The storage methods that take an id and a userId, called directly on a   *)
(* store that holds documents and reminders of both users.                  *)

StoredIds == {1, 2}
MissingId == 3

\* The stores the calls are made on: each id absent or owned by either user
StoredDocuments ==
    LET rows(id) == {createDocument([userId |-> u, originalName |-> Scan001_pdf,
                                     mimeType |-> application_pdf,
                                     category |-> "Receipts", expiryDate |-> e], id, 0) :
                        u \in Users, e \in {<<>>, <<100>>}}
    IN  UNION {{f \in [D -> UNION {rows(id) : id \in D}] : \A id \in D : f[id].id = id} :
                  D \in SUBSET StoredIds}

StoredReminders ==
    LET rows(id) == {createReminder([userId |-> u, documentId |-> id, reminderDate |-> 10,
                                     message |-> << <<>>, "note" >>, isActive |-> "true"], id) :
                        u \in Users}
    IN  UNION {{f \in [D -> UNION {rows(id) : id \in D}] : \A id \in D : f[id].id = id} :
                  D \in SUBSET StoredIds}

InitStorage ==
    /\ phase = "listening"
    /\ env = "true"
    /\ backend \in {"mem", "pg"}
    /\ now = 0
    /\ documents \in StoredDocuments
    /\ reminders \in StoredReminders
    /\ uploads = <<>>
    /\ posts = <<>>
    /\ ticks = 0
    /\ faults = 0
    /\ probe = NoProbe

\* What a call was, what it returned, and the stores it was made on
Probe(op, userId, id, result) ==
    [op |-> op, userId |-> userId, id |-> id, result |-> result,
     documents |-> documents, reminders |-> reminders]

StorageGetDocument(userId, id) ==
    /\ probe' = Probe("getDocument", userId, id, getDocument(documents, id, userId))
    /\ UNCHANGED <<phase, env, backend, now, documents, reminders,
                   uploads, posts, ticks, faults>>

StorageUpdateDocument(userId, id, expiryDate) ==
    /\ IF ownsDocument(documents, id, userId)
       THEN LET row == updateDocument(documents, id, expiryDate)
            IN  /\ documents' = Put(documents, id, row)
                /\ probe' = Probe("updateDocument", userId, id, <<row>>)
       ELSE /\ probe' = Probe("updateDocument", userId, id, <<>>)
            /\ UNCHANGED documents
    /\ UNCHANGED <<phase, env, backend, now, reminders, uploads, posts, ticks, faults>>

StorageDeleteDocument(userId, id) ==
    /\ IF ownsDocument(documents, id, userId)
       THEN /\ documents' = Drop(documents, {id})
            /\ reminders' = deleteDocumentReminders(backend, reminders, id)
            /\ probe' = Probe("deleteDocument", userId, id, TRUE)
       ELSE /\ probe' = Probe("deleteDocument", userId, id, FALSE)
            /\ UNCHANGED <<documents, reminders>>
    /\ UNCHANGED <<phase, env, backend, now, uploads, posts, ticks, faults>>

StorageUpdateReminder(userId, id, isActive) ==
    /\ IF ownsReminder(reminders, id, userId)
       THEN LET row == updateReminder(reminders, id, isActive)
            IN  /\ reminders' = Put(reminders, id, row)
                /\ probe' = Probe("updateReminder", userId, id, <<row>>)
       ELSE /\ probe' = Probe("updateReminder", userId, id, <<>>)
            /\ UNCHANGED reminders
    /\ UNCHANGED <<phase, env, backend, now, documents, uploads, posts, ticks, faults>>

NextStorage ==
    \/ \E userId \in Users, id \in StoredIds \cup {MissingId} :
          StorageGetDocument(userId, id)
    \/ \E userId \in Users, id \in StoredIds \cup {MissingId} :
          StorageUpdateDocument(userId, id, <<50>>)
    \/ \E userId \in Users, id \in StoredIds \cup {MissingId} :
          StorageDeleteDocument(userId, id)
    \/ \E userId \in Users, id \in StoredIds \cup {MissingId} :
          StorageUpdateReminder(userId, id, FALSE)

SpecStorage == InitStorage /\ [][NextStorage]_vars

----------------------------------------------------------------------------
(* MemStorage and PostgresStorage side by side: the same calls made on both, *)
(* from the same contents.  documents and reminders are MemStorage's maps;   *)
(* probe holds PostgresStorage's tables and what the last call returned from *)
(* each of the two.                                                          *)

\* The characters of a category name
categoryText(category) ==
    CASE category = "Identity Documents" ->
           <<"I","d","e","n","t","i","t","y"," ","D","o","c","u","m","e","n","t","s">>
      [] category = "Legal Documents" ->
           <<"L","e","g","a","l"," ","D","o","c","u","m","e","n","t","s">>
      [] category = "Bills & Utilities" ->
           <<"B","i","l","l","s"," ","&"," ","U","t","i","l","i","t","i","e","s">>
      [] category = "Medical Records" ->
           <<"M","e","d","i","c","a","l"," ","R","e","c","o","r","d","s">>
      [] category = "Receipts" ->
           <<"R","e","c","e","i","p","t","s">>
      [] category = "Travel Documents" ->
           <<"T","r","a","v","e","l"," ","D","o","c","u","m","e","n","t","s">>
      [] category = "Insurance" ->
           <<"I","n","s","u","r","a","n","c","e">>
      [] OTHER -> <<>>

kw_scan == <<"s","c","a","n">>
kw_receipts == <<"r","e","c","e","i","p","t","s">>

\* MemStorage.searchDocuments: the query is looked for, in lower case, in the
\* original name and in the category (and in the stored file name and the
\* tags, which the rows of the model do not have)
MemSearchDocuments(docs, userId, query) ==
    LET lowerQuery == toLowerCase(query) IN
    {docs[k] : k \in {d \in DOMAIN docs :
                        /\ docs[d].userId = userId
                        /\ \/ includes(toLowerCase(docs[d].originalName), lowerQuery)
                           \/ includes(toLowerCase(categoryText(docs[d].category)),
                                       lowerQuery)}}

\* PostgresStorage.searchDocuments: ilike(documents.originalName, %query%)
PgSearchDocuments(docs, userId, query) ==
    {docs[k] : k \in {d \in DOMAIN docs :
                        /\ docs[d].userId = userId
                        /\ includes(toLowerCase(docs[d].originalName),
                                    toLowerCase(query))}}

\* PostgresStorage.getReminders and getActiveReminders, as sets of rows
PgGetReminders(rems, userId) ==
    {rems[r] : r \in {k \in DOMAIN rems : rems[k].userId = userId}}

PgGetActiveReminders(rems, userId) ==
    {rems[r] : r \in {k \in DOMAIN rems : rems[k].userId = userId /\ rems[k].isActive}}

\* The two results of one call, and PostgresStorage's tables after it
Both(op, userId, mem, pg, pgDocuments, pgReminders) ==
    [op |-> op, userId |-> userId, mem |-> mem, pg |-> pg,
     pgDocuments |-> pgDocuments, pgReminders |-> pgReminders]

InitBoth ==
    /\ phase = "listening"
    /\ env = "true"
    /\ backend = "mem"
    /\ now = 0
    /\ documents \in StoredDocuments
    /\ reminders \in StoredReminders
    /\ uploads = <<>>
    /\ posts = <<>>
    /\ ticks = 0
    /\ faults = 0
    /\ probe = Both("none", "", <<>>, <<>>, documents, reminders)

BothUpdateDocument(userId, id, expiryDate) ==
    LET memRow == IF ownsDocument(documents, id, userId)
                  THEN <<updateDocument(documents, id, expiryDate)>> ELSE <<>>
        pgRow == IF ownsDocument(probe.pgDocuments, id, userId)
                 THEN <<updateDocument(probe.pgDocuments, id, expiryDate)>> ELSE <<>>
    IN  /\ documents' = IF memRow = <<>> THEN documents ELSE Put(documents, id, memRow[1])
        /\ probe' = Both("updateDocument", userId, memRow, pgRow,
                         IF pgRow = <<>> THEN probe.pgDocuments
                         ELSE Put(probe.pgDocuments, id, pgRow[1]),
                         probe.pgReminders)
        /\ UNCHANGED <<phase, env, backend, now, reminders, uploads, posts, ticks, faults>>

BothDeleteDocument(userId, id) ==
    LET mem == ownsDocument(documents, id, userId)
        pg == ownsDocument(probe.pgDocuments, id, userId)
    IN  /\ documents' = IF mem THEN Drop(documents, {id}) ELSE documents
        /\ reminders' = IF mem THEN MemDeleteReminders(reminders, id) ELSE reminders
        /\ probe' = Both("deleteDocument", userId, mem, pg,
                         IF pg THEN Drop(probe.pgDocuments, {id}) ELSE probe.pgDocuments,
                         IF pg THEN PgDeleteReminders(probe.pgReminders, id)
                         ELSE probe.pgReminders)
        /\ UNCHANGED <<phase, env, backend, now, uploads, posts, ticks, faults>>

BothUpdateReminder(userId, id, isActive) ==
    LET memRow == IF ownsReminder(reminders, id, userId)
                  THEN <<updateReminder(reminders, id, isActive)>> ELSE <<>>
        pgRow == IF ownsReminder(probe.pgReminders, id, userId)
                 THEN <<updateReminder(probe.pgReminders, id, isActive)>> ELSE <<>>
    IN  /\ reminders' = IF memRow = <<>> THEN reminders ELSE Put(reminders, id, memRow[1])
        /\ probe' = Both("updateReminder", userId, memRow, pgRow,
                         probe.pgDocuments,
                         IF pgRow = <<>> THEN probe.pgReminders
                         ELSE Put(probe.pgReminders, id, pgRow[1]))
        /\ UNCHANGED <<phase, env, backend, now, documents, uploads, posts, ticks, faults>>

BothSearchDocuments(userId, query) ==
    /\ probe' = Both("searchDocuments", userId,
                     MemSearchDocuments(documents, userId, query),
                     PgSearchDocuments(probe.pgDocuments, userId, query),
                     probe.pgDocuments, probe.pgReminders)
    /\ UNCHANGED <<phase, env, backend, now, documents, reminders,
                   uploads, posts, ticks, faults>>

BothGetReminders(userId) ==
    /\ probe' = Both("getReminders", userId,
                     getReminders(reminders, userId),
                     PgGetReminders(probe.pgReminders, userId),
                     probe.pgDocuments, probe.pgReminders)
    /\ UNCHANGED <<phase, env, backend, now, documents, reminders,
                   uploads, posts, ticks, faults>>

BothGetActiveReminders(userId) ==
    /\ probe' = Both("getActiveReminders", userId,
                     getActiveReminders(reminders, userId),
                     PgGetActiveReminders(probe.pgReminders, userId),
                     probe.pgDocuments, probe.pgReminders)
    /\ UNCHANGED <<phase, env, backend, now, documents, reminders,
                   uploads, posts, ticks, faults>>

NextBoth ==
    \/ \E userId \in Users, id \in StoredIds \cup {MissingId} :
          BothUpdateDocument(userId, id, <<50>>)
    \/ \E userId \in Users, id \in StoredIds \cup {MissingId} :
          BothDeleteDocument(userId, id)
    \/ \E userId \in Users, id \in StoredIds \cup {MissingId} :
          BothUpdateReminder(userId, id, FALSE)
    \/ \E userId \in Users, query \in {kw_scan, kw_receipts} : BothSearchDocuments(userId, query)
    \/ \E userId \in Users : BothGetReminders(userId)
    \/ \E userId \in Users : BothGetActiveReminders(userId)

SpecBoth == InitBoth /\ [][NextBoth]_vars

----------------------------------------------------------------------------
(* Properties. *)

\* An upload handler that has got past the scan block
PastScan(h) == h.pc \in {"schedule", "done"}

\* The document id was handed out by some upload's createDocument
WasCreated(id) == \E i \in DOMAIN uploads : uploads[i].document.id = id /\ id # 0

\* C1 - Cascade integrity: whenever deleteDocument removes a document, no
\* reminder whose documentId is that document's id remains in the store after
\* the step.  Stated for the process over PostgresStorage (SpecPg).
CascadeIntegrity ==
    [][\A id \in DOMAIN documents :
          id \notin DOMAIN documents'
             => \A r \in DOMAIN reminders' : reminders'[r].documentId # id]_vars

\* C2 - No orphan reminders under interleaving: in every reachable state no
\* reminder refers to a document that was created and no longer exists.
NoOrphanReminders ==
    \A r \in DOMAIN reminders :
       WasCreated(reminders[r].documentId)
          => reminders[r].documentId \in DOMAIN documents

\* C3 - Reminder ownership: in every reachable state each reminder's userId is
\* the userId of the document its documentId references.
ReminderOwnership ==
    \A r \in DOMAIN reminders :
       reminders[r].documentId \in DOMAIN documents
          => reminders[r].userId = documents[reminders[r].documentId].userId

\* C4 - Confidence gate: once the scanner has returned, a result with
\* confidence <= 0.7 has left the document without expiry date and has caused
\* no write; updateDocument is called only for a result with a date and a
\* confidence > 0.7, and what it writes is the scanned date.
ConfidenceGate ==
    \A i \in DOMAIN uploads :
       LET h == uploads[i]
           conf == h.scanResult.confidence
           above == conf.t = "num" /\ conf.n > 70
       IN  (h.scannerCalls = 1 /\ PastScan(h)) =>
             /\ ~above =>
                  /\ h.updateCalls = 0
                  /\ h.document.expiryDate = <<>>
                  /\ h.document.id \in DOMAIN documents
                        => documents[h.document.id].expiryDate = <<>>
             /\ h.updateCalls = 1 => (above /\ Truthy(h.scanResult.expiryDate))
             /\ h.updated =>
                  /\ h.document.expiryDate = NewDate(h.scanResult.expiryDate)
                  /\ h.document.id \in DOMAIN documents
                        => documents[h.document.id].expiryDate = h.document.expiryDate

\* A result with a date and confidence exactly 0.7 was discarded
ConfidenceGateWitness ==
    \E i \in DOMAIN uploads :
       /\ uploads[i].pc = "done"
       /\ uploads[i].scannerCalls = 1
       /\ uploads[i].scanResult.expiryDate = JSIsoDate(100)
       /\ uploads[i].scanResult.confidence = JSNum(70)
       /\ uploads[i].document.id \in DOMAIN documents
       /\ documents[uploads[i].document.id].expiryDate = <<>>

\* C5 - Scanner safety: every result scanDocumentForExpiry has returned has a
\* confidence in [0,1] and an expiryDate that is absent or a date in
\* YYYY-MM-DD form.
ScannerSafety ==
    \A i \in DOMAIN uploads :
       LET h == uploads[i] IN
       (h.scannerCalls = 1 /\ PastScan(h)) =>
          /\ h.scanResult.confidence.t = "num"
          /\ h.scanResult.confidence.n >= 0
          /\ h.scanResult.confidence.n <= 100
          /\ h.scanResult.expiryDate.t \in {"null", "undefined", "isodate"}

ScanEligible(h) ==
    /\ h.document.id # 0
    /\ h.declared = <<>>
    /\ shouldScanDocument(h.document.originalName, h.document.category)

\* C7 as stated - Scanning disabled end to end: with the flag false, an upload
\* of a scan-eligible document with no declared expiry does not invoke the
\* scanner (call count 0) and the document has no expiryDate.
ScanDisabledNotInvoked ==
    \A i \in DOMAIN uploads :
       LET h == uploads[i] IN
       (env # "true" /\ ScanEligible(h) /\ PastScan(h)) =>
          /\ h.scannerCalls = 0
          /\ h.document.expiryDate = <<>>

\* C7 - Scanning disabled end to end: with the flag false, an upload of a
\* scan-eligible document with no declared expiry invokes the scanner once
\* with enabled = false; the scanner returns the empty result without calling
\* the inference service, nothing is written, and the document has no
\* expiryDate and gets no reminders.
ScanDisabledShortCircuit ==
    \A i \in DOMAIN uploads :
       LET h == uploads[i] IN
       (env # "true" /\ ScanEligible(h) /\ PastScan(h)) =>
          /\ h.scannerCalls = 1
          /\ ~h.enabledArg
          /\ h.serviceCalls = 0
          /\ h.scanResult = EmptyResult
          /\ h.updateCalls = 0
          /\ h.document.expiryDate = <<>>
          /\ h.document.id \in DOMAIN documents
                => documents[h.document.id].expiryDate = <<>>
          /\ h.schedCalls = 0
          /\ h.made = {}

\* The passport image went through an upload with the variable unset
ScanDisabledWitness ==
    \E i \in DOMAIN uploads :
       /\ env = "unset"
       /\ uploads[i].pc = "done"
       /\ uploads[i].status = 200
       /\ uploads[i].document.originalName = passport_john_jpg
       /\ uploads[i].readable
       /\ uploads[i].declared = <<>>
       /\ uploads[i].scannerCalls = 1
       /\ uploads[i].document.id \in DOMAIN documents

\* C8 - OCR forced on: whatever ENABLE_REMOTE_OCR was at process start, it is
\* 'true' once the server listens, no upload is handled before, and every
\* call of the scanner made by an upload handler passes enabled = true.
OcrForcedOn ==
    /\ phase = "starting" => uploads = <<>>
    /\ phase = "listening" => env = "true"
    /\ \A i \in DOMAIN uploads :
          uploads[i].scannerCalls = 1 => uploads[i].enabledArg

\* An upload reached the inference service in a started process
OcrForcedOnWitness ==
    /\ phase = "listening"
    /\ \E i \in DOMAIN uploads :
          /\ uploads[i].scannerCalls = 1
          /\ uploads[i].enabledArg
          /\ uploads[i].serviceCalls = 1
          /\ uploads[i].pc = "awaitScan"

\* What one call of createExpiryReminders has created, without the ids
madeOf(h) ==
    {[days |-> m.days, reminderDate |-> m.reminderDate, isActive |-> m.isActive] :
        m \in h.made}

\* The reminders the lead-time law asks for, for expiry date E and clock N
lawful(E, N) ==
    {[days |-> o, reminderDate |-> E - o, isActive |-> TRUE] :
        o \in {o \in {90, 30, 7} : E - o > N}}

\* C9 - Reminder lead-time law: a call of createExpiryReminders with expiry
\* date E at clock N creates reminders only for offsets o in {90, 30, 7} with
\* E - o > N, each with isActive = true and reminderDate = E - o, and a call
\* that has returned has created one for every such offset.  N is the clock
\* when the call is made; the calls considered last at most MaxTicks days.
LeadTimeLaw ==
    \A i \in DOMAIN uploads :
       LET h == uploads[i] IN
       h.schedCalls = 1 =>
          /\ madeOf(h) \subseteq lawful(h.schedExpiry[1], h.schedNow)
          /\ Cardinality(h.made) = Cardinality(madeOf(h))
          /\ (h.pc = "done" /\ h.status = 200)
                => madeOf(h) = lawful(h.schedExpiry[1], h.schedNow)
          /\ \A m \in h.made :
                m.id \in DOMAIN reminders =>
                   /\ reminders[m.id].reminderDate = h.schedExpiry[1] - m.days
                   /\ reminders[m.id].documentId = h.document.id

\* E eight days ahead gave the 7-day reminder only, E a hundred days ahead all
\* three, E in the past none
LeadTimeLawWitness ==
    \E i \in DOMAIN uploads :
       /\ uploads[i].pc = "done"
       /\ uploads[i].status = 200
       /\ uploads[i].schedCalls = 1
       /\ uploads[i].schedNow = 0
       /\ uploads[i].schedExpiry = <<8>>
       /\ madeOf(uploads[i]) = {[days |-> 7, reminderDate |-> 1, isActive |-> TRUE]}

\* The expiry date an ingestion has accepted: the declared one, or the scanned
\* one that updateDocument wrote; <<>> when there is none
acceptedExpiry(h) ==
    IF h.document.id = 0 THEN <<>>
    ELSE IF h.declared # <<>> THEN h.declared
    ELSE IF h.updated THEN NewDate(h.scanResult.expiryDate)
    ELSE <<>>

\* C10 - Schedule exactly once: an upload handler never calls
\* createExpiryReminders twice; when it has answered, it has called it once,
\* with the document holding the accepted expiry date, if an expiry date was
\* accepted, and not at all otherwise.
ScheduleExactlyOnce ==
    \A i \in DOMAIN uploads :
       LET h == uploads[i] IN
       /\ h.schedCalls \in {0, 1}
       /\ h.schedCalls = 1 =>
             /\ acceptedExpiry(h) # <<>>
             /\ h.schedExpiry = acceptedExpiry(h)
       /\ h.pc = "done" =>
             h.schedCalls = (IF acceptedExpiry(h) # <<>> THEN 1 ELSE 0)

\* A scanned date passed the gate, was written, and was scheduled against
ScheduleExactlyOnceWitness ==
    \E i \in DOMAIN uploads :
       /\ uploads[i].pc = "done"
       /\ uploads[i].status = 200
       /\ uploads[i].declared = <<>>
       /\ uploads[i].updated
       /\ uploads[i].schedCalls = 1
       /\ uploads[i].schedExpiry = <<100>>
       /\ Cardinality(uploads[i].made) = 3

\* C11 - Eligibility gate: shouldScanDocument(filename, category) is false for
\* every category other than "Identity Documents" and "Legal Documents", true
\* for every filename in "Identity Documents", and in "Legal Documents" true
\* exactly when the lower-cased filename contains one of the fourteen keywords.
EligibilityGate ==
    probe.op = "shouldScanDocument" =>
       probe.result =
          ( IF probe.category \notin {"Identity Documents", "Legal Documents"} THEN FALSE
            ELSE IF probe.category = "Identity Documents" THEN TRUE
            ELSE \E kw \in {kw_passport, kw_brp, kw_biometric, kw_residence, kw_permit,
                            kw_license, kw_licence, kw_driving, kw_id, kw_identity,
                            kw_visa, kw_work, kw_student, kw_tier} :
                    includes(toLowerCase(probe.filename), kw) )

\* The test accepted an identity document whose name has no keyword
EligibilityGateWitness ==
    /\ probe.op = "shouldScanDocument"
    /\ probe.filename = Scan001_pdf
    /\ probe.category = "Identity Documents"
    /\ probe.result = TRUE

\* The spec's reference classifier: the first group with a keyword in the name
ClassifierReference(filename) ==
    LET name == toLowerCase(filename)
        any(kws) == \E kw \in kws : includes(name, kw)
    IN  IF any({kw_passport, kw_license, kw_licence, kw_id, kw_brp, kw_biometric,
                kw_residence_permit})
        THEN "Identity Documents"
        ELSE IF any({kw_bill, kw_utility, kw_invoice}) THEN "Bills & Utilities"
        ELSE IF any({kw_medical, kw_health, kw_doctor}) THEN "Medical Records"
        ELSE IF any({kw_receipt, kw_purchase}) THEN "Receipts"
        ELSE IF any({kw_ticket, kw_visa, kw_travel}) THEN "Travel Documents"
        ELSE IF any({kw_insurance, kw_policy}) THEN "Insurance"
        ELSE "Receipts"

\* C12 - The Category Classifier equals the reference function: whatever the
\* MIME type, categorizeDocument returns the reference classifier's category
\* for the filename.
ClassifierIsReference ==
    probe.op = "categorizeDocument" =>
       probe.result = ClassifierReference(probe.filename)

\* The scanner came back without a usable result: no date in YYYY-MM-DD form,
\* or a confidence that is no number
ScanFailed(h) ==
    /\ h.scannerCalls = 1
    /\ PastScan(h)
    /\ h.scanResult.expiryDate.t # "isodate" \/ h.scanResult.confidence.t # "num"

PersistenceErrorsPropagate ==
    \A i \in DOMAIN uploads :
       (uploads[i].faulted # "" /\ uploads[i].pc = "done") => uploads[i].status = 500

\* C15 - No partial reminder schedule on failure: an upload that failed on a
\* persistence error has created none of the reminders of its scheduling
\* call, or all of them.
NoPartialSchedule ==
    \A i \in DOMAIN uploads :
       LET h == uploads[i] IN
       (h.pc = "done" /\ h.status = 500 /\ h.schedCalls = 1) =>
          \/ h.made = {}
          \/ madeOf(h) = lawful(h.schedExpiry[1], h.schedNow)

\* C16 - Reminder faults never lose the document: the step in which an
\* upload's createReminder throws leaves the document store as it was, so the
\* row createDocument wrote, with a scan-confirmed expiry date written since,
\* is still there.
DocumentSurvivesReminderFault ==
    [][\A i \in DOMAIN uploads :
          (uploads[i].faulted = "" /\ uploads'[i].faulted = "createReminder")
             => documents' = documents]_vars

\* createReminder threw after a scanned expiry date had been written
DocumentSurvivesWitness ==
    \E i \in DOMAIN uploads :
       /\ uploads[i].faulted = "createReminder"
       /\ uploads[i].status = 500
       /\ uploads[i].updated
       /\ uploads[i].document.id \in DOMAIN documents
       /\ documents[uploads[i].document.id] = uploads[i].document
       /\ documents[uploads[i].document.id].expiryDate = <<100>>

\* C20 - If createDocument fails during an upload, the upload ends there with
\* a failure: no scan is attempted and no reminder is created by it.
NothingAfterCreateFailure ==
    \A i \in DOMAIN uploads :
       LET h == uploads[i] IN
       h.faulted = "createDocument" =>
          /\ h.pc = "done"
          /\ h.status = 500
          /\ h.document = NoDocument
          /\ h.scannerCalls = 0
          /\ h.serviceCalls = 0
          /\ h.updateCalls = 0
          /\ h.schedCalls = 0
          /\ h.made = {}

\* createDocument threw for a passport image that would have been scanned
NothingAfterCreateFailureWitness ==
    \E i \in DOMAIN uploads :
       /\ uploads[i].faulted = "createDocument"
       /\ uploads[i].input.file
       /\ uploads[i].userId = "u1"
       /\ uploads[i].readable
       /\ uploads[i].status = 500

\* The rows a call could have been about, in the stores it was made on
probedRows ==
    IF probe.op = "updateReminder" THEN probe.reminders ELSE probe.documents

\* The id of the call belongs to another user, or to nobody
ForeignId == probe.id \in DOMAIN probedRows /\ probedRows[probe.id].userId # probe.userId
AbsentId == probe.id \notin DOMAIN probedRows

\* C17 - Not-found indistinguishability: getDocument, updateDocument,
\* deleteDocument and updateReminder, called by a user for an id owned by
\* another user, return what they return for an id that does not exist
\* (undefined, or false for deleteDocument) and, as for such an id, leave
\* both stores as they were.
NotFoundIndistinguishable ==
    (probe.op \in {"getDocument", "updateDocument", "deleteDocument", "updateReminder"}
        /\ (ForeignId \/ AbsentId)) =>
       /\ probe.result = (IF probe.op = "deleteDocument" THEN FALSE ELSE <<>>)
       /\ documents = probe.documents
       /\ reminders = probe.reminders

\* u1 asked to delete a document of u2 that has a reminder
NotFoundIndistinguishableWitness ==
    /\ probe.op = "deleteDocument"
    /\ probe.userId = "u1"
    /\ ForeignId
    /\ probe.id \in DOMAIN reminders
    /\ probe.result = FALSE

\* C18 - Validation errors create no state: a step that handles an upload
\* without accepted file, with unparseable tags or with an expiryDate that is
\* no date, or a reminder payload without message or valid reminderDate,
\* answers with an error and leaves the documents and the reminders as they
\* were.
ValidationCreatesNoState ==
    [][ /\ Len(uploads') = Len(uploads) + 1 =>
              LET h == uploads'[Len(uploads')] IN
              ~(h.input.file /\ h.input.tags /\ h.input.expiryDate) =>
                 /\ h.pc = "done"
                 /\ h.status \in {400, 500}
                 /\ documents' = documents
                 /\ reminders' = reminders
        /\ Len(posts') = Len(posts) + 1 =>
              LET q == posts'[Len(posts')] IN
              ~(q.message /\ q.reminderDate) =>
                 /\ q.status = 400
                 /\ documents' = documents
                 /\ reminders' = reminders ]_vars

\* An upload with a bad expiryDate and a reminder without message were rejected
ValidationCreatesNoStateWitness ==
    /\ \E i \in DOMAIN uploads :
          /\ ~uploads[i].input.expiryDate
          /\ uploads[i].status = 400
    /\ \E k \in DOMAIN posts :
          /\ ~posts[k].message
          /\ posts[k].status = 400
    /\ documents = <<>>
    /\ reminders = <<>>

\* C19 - No deduplication: uploads that stored a document have documents with
\* distinct ids and reminder sets that do not meet; every reminder an upload
\* created carries that upload's document id; and a stored document has the
\* expiry date of its own upload (declared, or scanned and written by it),
\* never one that comes from another upload.
NoDeduplication ==
    /\ \A i, j \in DOMAIN uploads :
          (i # j /\ uploads[i].document.id # 0 /\ uploads[j].document.id # 0) =>
             /\ uploads[i].document.id # uploads[j].document.id
             /\ {m.id : m \in uploads[i].made} \cap {m.id : m \in uploads[j].made} = {}
    /\ \A i \in DOMAIN uploads :
          LET h == uploads[i] IN
          /\ \A m \in h.made :
                m.id \in DOMAIN reminders => reminders[m.id].documentId = h.document.id
          /\ h.document.id \in DOMAIN documents =>
                /\ documents[h.document.id].userId = h.userId
                /\ documents[h.document.id].expiryDate =
                      (IF h.updated THEN NewDate(h.scanResult.expiryDate) ELSE h.declared)

\* The same request was handled twice; each has its document and its reminder
NoDeduplicationWitness ==
    /\ Len(uploads) = 2
    /\ \A i \in {1, 2} :
          /\ uploads[i].pc = "done"
          /\ uploads[i].status = 200
          /\ uploads[i].userId = "u2"
          /\ uploads[i].declared = <<8>>
          /\ Cardinality(uploads[i].made) = 1
          /\ uploads[i].document.id \in DOMAIN documents
    /\ uploads[1].document.originalName = uploads[2].document.originalName
    /\ Cardinality(DOMAIN reminders) = 2

\* C21 - Scan precondition: an upload that has stored its document and got
\* past the scan block has called the scanner if and only if no expiry date
\* was declared and shouldScanDocument(originalName, category) is true; an
\* upload with a declared expiry date never calls it, and its document keeps
\* the declared date.
ScanPrecondition ==
    \A i \in DOMAIN uploads :
       LET h == uploads[i] IN
       /\ (h.document.id # 0 /\ PastScan(h)) =>
             (h.scannerCalls = 1 <=>
                 (h.declared = <<>>
                    /\ shouldScanDocument(h.document.originalName, h.document.category)))
       /\ (h.document.id # 0 /\ h.declared # <<>>) =>
             /\ h.scannerCalls = 0
             /\ h.updateCalls = 0
             /\ h.document.expiryDate = h.declared
             /\ h.document.id \in DOMAIN documents
                   => documents[h.document.id].expiryDate = h.declared

\* A passport image with a declared expiry date went through without a scan
ScanPreconditionWitness ==
    \E i \in DOMAIN uploads :
       /\ uploads[i].pc = "done"
       /\ uploads[i].status = 200
       /\ uploads[i].declared = <<100>>
       /\ uploads[i].document.originalName = passport_john_jpg
       /\ uploads[i].document.category = "Identity Documents"
       /\ uploads[i].scannerCalls = 0
       /\ uploads[i].document.id \in DOMAIN documents

\* C22 - Step ordering within one upload: the scanner is called only after
\* createDocument has returned the classified document; the handler goes past
\* the scan block, calls updateDocument and schedules only when the scanner
\* has returned; and createExpiryReminders is called, and reminders are
\* created, only after the scan block with its update, if any, is over.
StepOrdering ==
    \A i \in DOMAIN uploads :
       LET h == uploads[i] IN
       /\ h.scannerCalls = 1 =>
             /\ h.document.id # 0
             /\ h.document.category # ""
       /\ h.scanReturns = 1 => h.scannerCalls = 1
       /\ h.serviceCalls = 1 => h.scannerCalls = 1
       /\ h.pc = "created" =>
             h.scannerCalls = 0 /\ h.updateCalls = 0 /\ h.schedCalls = 0
       /\ h.pc = "awaitScan" =>
             h.scanReturns = 0 /\ h.updateCalls = 0 /\ h.schedCalls = 0
       /\ PastScan(h) => h.scanReturns = h.scannerCalls
       /\ h.updateCalls = 1 => h.scanReturns = 1
       /\ (h.schedCalls = 1 \/ h.made # {}) =>
             /\ PastScan(h)
             /\ h.schedCalls = 1
             /\ h.scanReturns = h.scannerCalls
             /\ h.updateCalls = 1 => (h.updated /\ h.schedExpiry = h.document.expiryDate)

\* All six steps were taken by one upload
StepOrderingWitness ==
    \E i \in DOMAIN uploads :
       /\ uploads[i].pc = "done"
       /\ uploads[i].document.category = "Identity Documents"
       /\ uploads[i].scannerCalls = 1
       /\ uploads[i].serviceCalls = 1
       /\ uploads[i].scanReturns = 1
       /\ uploads[i].updateCalls = 1
       /\ uploads[i].schedCalls = 1
       /\ uploads[i].status = 200
       /\ {m.days : m \in uploads[i].made} = {90, 30, 7}

\* C23 - No reminders without expiry date: when an upload with no declared
\* expiry date whose scan was skipped, or returned no date, or returned a
\* confidence that is not above 0.7, has answered, its document has no expiry
\* date and the upload has created no reminder for it.
NoExpiryNoReminders ==
    \A i \in DOMAIN uploads :
       LET h == uploads[i]
           conf == h.scanResult.confidence
           id == h.document.id
       IN  ( /\ h.pc = "done"
             /\ id # 0
             /\ h.declared = <<>>
             /\ \/ h.scannerCalls = 0
                \/ ~Truthy(h.scanResult.expiryDate)
                \/ ~(conf.t = "num" /\ conf.n > 70) ) =>
              /\ h.status = 200
              /\ h.document.expiryDate = <<>>
              /\ id \in DOMAIN documents => documents[id].expiryDate = <<>>
              /\ h.schedCalls = 0
              /\ h.made = {}
              /\ \A j \in 1..3 : scheduledReminderId(id, j) \notin DOMAIN reminders

\* A date came back with confidence 0; the upload answered without expiry date
NoExpiryNoRemindersWitness ==
    \E i \in DOMAIN uploads :
       /\ uploads[i].pc = "done"
       /\ uploads[i].status = 200
       /\ uploads[i].scanResult.expiryDate = JSIsoDate(0)
       /\ uploads[i].scanResult.confidence = JSNum(0)
       /\ uploads[i].document.id \in DOMAIN documents
       /\ documents[uploads[i].document.id].expiryDate = <<>>
       /\ uploads[i].made = {}

\* C24 - Every upload request eventually sends exactly one response: every
\* upload handler that has started ends with a status sent, a handler has
\* sent a status exactly when it has ended, and a handler that has ended
\* does nothing more.
EveryUploadAnswersOnce ==
    /\ \A i \in 1..MaxUploads :
          (Len(uploads) >= i) ~> (Len(uploads) >= i /\ uploads[i].status # 0)
    /\ [](\A i \in DOMAIN uploads :
             /\ uploads[i].status # 0 <=> uploads[i].pc = "done"
             /\ uploads[i].status \in {0, 200, 400, 500})
    /\ [][\A i \in DOMAIN uploads :
             uploads[i].status # 0 => uploads'[i] = uploads[i]]_vars

\* An upload that waited for the inference service has answered
EveryUploadAnswersOnceWitness ==
    \E i \in DOMAIN uploads :
       /\ uploads[i].serviceCalls = 1
       /\ uploads[i].scanReturns = 1
       /\ uploads[i].pc = "done"
       /\ uploads[i].status = 200
       /\ uploads[i].faulted = ""

\* C25 - Dismissal never deletes: after updateReminder has set isActive to
\* false the reminder is still in the store with the reminderDate it had,
\* getReminders returns it to its owner, getActiveReminders and
\* getUpcomingReminders do not; and a reminder leaves the store only in a
\* deleteDocument of the document it references.
DismissalNeverDeletes ==
    /\ (probe.op = "updateReminder" /\ probe.result # <<>>) =>
          /\ DOMAIN reminders = DOMAIN probe.reminders
          /\ reminders[probe.id].reminderDate = probe.reminders[probe.id].reminderDate
          /\ reminders[probe.id] \in getReminders(reminders, probe.userId)
          /\ reminders[probe.id] \notin getActiveReminders(reminders, probe.userId)
          /\ \A days \in {0, 30} :
                reminders[probe.id] \notin
                   getUpcomingReminders(reminders, probe.userId, days, now)
    /\ probe.op # "none" =>
          \A r \in DOMAIN probe.reminders \ DOMAIN reminders :
             /\ probe.op = "deleteDocument"
             /\ probe.reminders[r].documentId = probe.id

\* An active reminder due within 30 days was dismissed by its owner
DismissalNeverDeletesWitness ==
    /\ probe.op = "updateReminder"
    /\ probe.result # <<>>
    /\ probe.reminders[probe.id] \in
          getUpcomingReminders(probe.reminders, probe.userId, 30, now)
    /\ probe.reminders[probe.id] \in getActiveReminders(probe.reminders, probe.userId)
    /\ ~reminders[probe.id].isActive

\* C26 - Document identity is immutable: in every step each stored document
\* is held under its id, a document that was in the store before the step has
\* the id, userId and uploadedAt it had, and so has the document a handler
\* got from createDocument or updateDocument.
DocumentIdentityImmutable ==
    [][ /\ \A k \in DOMAIN documents' :
              /\ documents'[k].id = k
              /\ k \in DOMAIN documents =>
                    /\ documents'[k].userId = documents[k].userId
                    /\ documents'[k].uploadedAt = documents[k].uploadedAt
        /\ \A i \in DOMAIN uploads :
              uploads[i].document.id # 0 =>
                 /\ uploads'[i].document.id = uploads[i].document.id
                 /\ uploads'[i].document.userId = uploads[i].document.userId
                 /\ uploads'[i].document.uploadedAt = uploads[i].document.uploadedAt
        /\ \A i \in DOMAIN uploads' :
              LET d == uploads'[i].document IN
              d.id \in DOMAIN documents' =>
                 /\ documents'[d.id].userId = d.userId
                 /\ documents'[d.id].uploadedAt = d.uploadedAt ]_vars

\* A document uploaded earlier has got its expiry date from a scan
DocumentIdentityImmutableWitness ==
    \E i \in DOMAIN uploads :
       /\ uploads[i].updated
       /\ uploads[i].declared = <<>>
       /\ uploads[i].document.id \in DOMAIN documents
       /\ documents[uploads[i].document.id].expiryDate # <<>>
       /\ documents[uploads[i].document.id].uploadedAt < now

\* C27 - Suffix schedule: when a call of createExpiryReminders is over it has
\* created between 0 and 3 reminders, and with the reminder for an offset it
\* has created the reminders for all smaller offsets.
SuffixSchedule ==
    \A i \in DOMAIN uploads :
       LET h == uploads[i] IN
       (h.schedCalls = 1 /\ h.pc = "done") =>
          /\ Cardinality(h.made) \in 0..Len(reminderOffsets)
          /\ \A m \in h.made : \A k \in DOMAIN reminderOffsets :
                reminderOffsets[k] < m.days =>
                   \E m2 \in h.made : m2.days = reminderOffsets[k]

\* The reminders stored for a document and one lead time of its expiry date
remindersFor(id, expiryDate, days) ==
    {r \in DOMAIN reminders :
        /\ reminders[r].documentId = id
        /\ reminders[r].reminderDate = reminderDateFor(expiryDate, days)}

\* C28 - At most one reminder per lead time: after an upload made through the
\* upload page with a declared expiry date, once the upload is answered, the
\* page has handled the answer and none of its reminder requests is pending,
\* the store holds at most one reminder per offset (90, 30, 7 days) for the
\* document.
OneReminderPerLeadTime ==
    \A i \in DOMAIN uploads :
       LET h == uploads[i] IN
       ( /\ h.declared # <<>>
         /\ h.pc = "done"
         /\ h.status = 200 => i \in probe.handled
         /\ \A p \in probe.pending : p.body.documentId # h.document.id ) =>
            \A k \in DOMAIN reminderOffsets :
               Cardinality(remindersFor(h.document.id, h.declared[1],
                                        reminderOffsets[k])) <= 1

\* C29 - Cross-user frame: a storage method called on behalf of a user leaves
\* every document and every reminder of the other users in the store, as it
\* was.
CrossUserFrame ==
    probe.op # "none" =>
       /\ \A k \in DOMAIN probe.documents :
             probe.documents[k].userId # probe.userId =>
                k \in DOMAIN documents /\ documents[k] = probe.documents[k]
       /\ \A r \in DOMAIN probe.reminders :
             probe.reminders[r].userId # probe.userId =>
                r \in DOMAIN reminders /\ reminders[r] = probe.reminders[r]

\* C30 - Substitutable stores: after every sequence of the same calls made on
\* MemStorage and on PostgresStorage, from the same contents, the last call
\* has returned the same from both (rows compared as a set).
StoresSubstitutable ==
    probe.op # "none" => probe.mem = probe.pg

====
